---- MODULE Spec2Model ----
(***************************************************************************)
(* Verification model of the generation loops of the repository:          *)
(*   - openvino_backend::api_interface (llm/qwen_cpp/openvino_backend_api) *)
(*     load / generate (streaming and non-streaming) / stop / reset /      *)
(*     unload, with its performance counters;                              *)
(*   - TextStreamer (put / end) of the speculative-decoding sample;        *)
(*   - main() of the speculative-decoding sample (draft + target loop);    *)
(*   - get_out_token_id, the token selection of api_interface.             *)
(* Each program has its own specification over the same variables: the     *)
(* variables of the programs that do not run keep their idle values.       *)
(***************************************************************************)
EXTENDS Integers, Sequences, FiniteSets, TLC

VARIABLES
    \* ---- api_interface: member fields
    api_status,        \* _api_status
    infer_request,     \* _infer_request: Null or the request's tensors and state
    tokenizer,         \* _tokenizer: "null" or "loaded"
    stop_generation,   \* _stop_generation
    new_token_id,      \* _new_token_id
    perf_statistic,    \* _perf_statistic
    \* ---- api_interface: the running api_Generate call (its locals and position)
    pc,                \* position of the generating thread
    mode,              \* "stream" (callback overload) or "nonstream"
    prompt,            \* the prompt argument, as the token ids encode() gives for it
    n_predict,         \* params.n_predict (int32_t)
    input_ids,         \* local input_ids
    history_ids,       \* local history_ids
    output_ids,        \* local output_ids (non-streaming overload)
    output_token,      \* local output_token
    \* ---- api_interface: observations
    cb_log,            \* token ids the callback was invoked with, in order
    cb_stop_at,        \* k when the callback set the stop flag at the k-th token, else 0
    stop_at,           \* tokens produced when api_stop ran during this call, else -1
    decode_steps,      \* generate_next_token calls of this call
    prefill_snapshot,  \* <<inference state after the prefill inference, the logits
                       \*   the first token was selected from>>, else <<>>
    calls,             \* api_Generate calls made so far
    after_reset,       \* the operation before this one was api_Reset
    \* ---- TextStreamer
    token_cache,       \* token_cache
    print_len,         \* print_len
    st_pc,             \* "open", "ended", or "ub" after an out-of-range string_view
    put_log,           \* the tokens given to put so far
    chunks,            \* what each put and end wrote to std::cout, in order
    \* ---- main() of the speculative-decoding sample
    mpc,               \* position in main
    main_prompt,       \* input_ids of the tokenized prompt
    draft_eos_at,      \* the draft inference (0 = prefill) whose argmax is the EOS id
    draft_pat,         \* the pattern of the draft's other argmax tokens
    target_first,      \* argmax of the target's prefill logits
    iter,              \* iter
    out_token,         \* out_token
    target_out_token,  \* target_out_token
    lm,                \* the draft request
    lm_target,         \* the target request
    \* ---- get_out_token_id
    s_pc,              \* "off", "ready" before the first call, "called" after a call
    params,            \* the params argument, but for do_sample and seed
    sample_call,       \* the latest call: its logits, history_ids, do_sample and seed
    logits,            \* the logits array as the selection reads it
    token_scores,      \* token_scores when out_token was drawn (sampling branch)
    sampled_token,     \* the out_token the latest call returned
    rng,               \* thread_local std::mt19937 rng of the calling thread
    \* ---- update_whisper_config_from_kwargs
    kw_pc,             \* "off", "ready" before the call, "returned" after it
    kw_config,         \* the config argument: <<>> (no value) or <<a config>>
    kw_kwargs,         \* the kwargs argument: <<key, value>> in iteration order
    kw_result          \* what the call gave: nullopt, a config, or invalid_argument

api_vars == <<api_status, infer_request, tokenizer, stop_generation, new_token_id,
              perf_statistic, pc, mode, prompt, n_predict, input_ids, history_ids,
              output_ids, output_token, cb_log, cb_stop_at, stop_at, decode_steps,
              prefill_snapshot, calls, after_reset>>

streamer_vars == <<token_cache, print_len, st_pc, put_log, chunks>>

main_vars == <<mpc, main_prompt, draft_eos_at, draft_pat, target_first, iter, out_token,
               target_out_token, lm, lm_target>>

sampler_vars == <<s_pc, params, sample_call, logits, token_scores, sampled_token, rng>>

kwargs_vars == <<kw_pc, kw_config, kw_kwargs, kw_result>>

vars == <<api_vars, streamer_vars, main_vars, sampler_vars, kwargs_vars>>

----------------------------------------------------------------------------
(* Bounds of the model *)

\* api_Generate calls in one behaviour
MaxCalls == 2
\* tokens of one api_Generate call when n_predict does not bound it
MaxTokens == 3

----------------------------------------------------------------------------
(* Values *)

\* a null pointer; a pointer that is not null is <<pointee>>
Null == <<>>
Deref(ptr) == ptr[1]

\* _tokenizer_config.eos_token_id and .im_end_id: two distinct ids of the vocabulary
eos_token_id == 2
im_end_id == 3
\* token ids get_out_token_id can return: [0, _vocab_size)
Vocab == 0 .. 3
\* token ids the model is made to produce: one ordinary token and the two end tokens
GenTokens == {0, eos_token_id, im_end_id}

\* encode(prompt, n_ctx) of the prompts tried
Prompts == { <<0>>, <<1, 0>> }
\* params.n_predict values tried (int32_t, so negative values are possible)
NPredictSet == { -1, 0, 2 }

Ones(n) == [i \in 1 .. n |-> 1]
\* std::iota(first, last, 0)
Iota(n) == [i \in 1 .. n |-> i - 1]

\* size_t < int32_t: the int is converted to size_t, so a negative n_predict is
\* a value near 2^64 and every size the model reaches is below it
UnsignedLess(size, n) == IF n < 0 THEN TRUE ELSE size < n

\* a double quotient num / den * 1000.0, kept as the pair (0.0 is <<0, 1>>;
\* den = 0 is inf or NaN, which are not zero)
Ratio(num, den) == <<num, den>>
IsZeroRatio(r) == r[1] = 0 /\ r[2] # 0

\* PerformanceStatistic{} and memset(&_perf_statistic, 0, ...)
ZeroPerf ==
    [ llm_load_duration |-> 0, llm_unload_duration |-> 0, llm_cancel_duration |-> 0,
      tokenizer_load_duration |-> 0, llm_first_infer_duration |-> 0,
      llm_prompt_evaluation_speed |-> Ratio(0, 1),
      llm_generate_next_token_duration |-> 0,
      llm_average_token_per_second |-> Ratio(0, 1),
      input_token_num |-> 0, generated_token_num |-> 0 ]

\* the tensors and the state of a request just created by create_infer_request()
FreshRequest ==
    [ input_ids |-> <<>>, attention_mask |-> <<>>, position_ids |-> <<>>,
      kv |-> <<>>, logits |-> <<>>, running |-> FALSE, cancelled |-> FALSE ]

----------------------------------------------------------------------------
(* The inference request *)

\* one inference of the stateful model: every input position is appended to the
\* model's KV state, and the logits have one row per input position, a function
\* of what the model was given up to that position
Zip(ids, pos) == [i \in 1 .. Len(ids) |-> <<ids[i], pos[i]>>]
Infer(req) ==
    LET new == Zip(req.input_ids, req.position_ids)
    IN  [req EXCEPT !.kv = req.kv \o new,
                    !.logits = [i \in 1 .. Len(new) |->
                                   [kv |-> req.kv \o SubSeq(new, 1, i),
                                    mask |-> Len(req.attention_mask)]],
                    !.running = FALSE]

\* get_tensor("logits").data<float>(): the logits from the start of the tensor
LogitsData(req) == req.logits[1]

\* start_async()
StartAsync(req) == [req EXCEPT !.running = TRUE, !.cancelled = FALSE]

\* faulty variant: the state is not reset
ResetState_kept(req) == req

\* for (auto &&state : query_state()) state.reset();
ResetState(req) == [req EXCEPT !.kv = <<>>]

\* generate_first_token, up to start_async: the tensors of the whole prompt
PrefillSetup(req, ids) ==
    ResetState([req EXCEPT !.input_ids = ids,
                           !.attention_mask = Ones(Len(ids)),
                           !.position_ids = Iota(Len(ids))])

\* get_tensor(...).set_shape({BATCH_SIZE, 1}) of input_ids and position_ids
ShapeToOne(req) ==
    [req EXCEPT !.input_ids = SubSeq(req.input_ids, 1, 1),
                !.position_ids = SubSeq(req.position_ids, 1, 1)]

\* faulty variant: the attention mask is not grown
DecodeSetup_noGrow(req, tok) ==
    [req EXCEPT !.input_ids = <<tok>>,
                !.position_ids = <<Len(req.attention_mask) - 1>>]

\* generate_next_token, up to start_async
DecodeSetup(req, tok) ==
    LET mask == Ones(Len(req.attention_mask) + 1)
    IN  [req EXCEPT !.input_ids = <<tok>>,
                    !.attention_mask = mask,
                    !.position_ids = <<Len(mask) - 2>>]

\* what prefill leaves in the request: KV state, attention mask, position ids, logits
Snapshot(req) ==
    [ kv |-> req.kv, attention_mask |-> req.attention_mask,
      position_ids |-> req.position_ids, logits |-> req.logits ]

----------------------------------------------------------------------------
(* api_interface *)

Produced == SubSeq(history_ids, Len(input_ids) + 1, Len(history_ids))

IsEos(tok) == tok = eos_token_id \/ tok = im_end_id

\* faulty variant: the streaming loop does not test for the end tokens
StreamLoopCond_noEos(tok, hist, ids, n) == UnsignedLess(Len(hist) - Len(ids), n)

\* while-condition of the streaming overload
StreamLoopCond(tok, hist, ids, n) ==
    /\ tok # eos_token_id
    /\ tok # im_end_id
    /\ UnsignedLess(Len(hist) - Len(ids), n)

\* faulty variant: the non-streaming loop does not test the stop flag
NonStreamLoopCond_noStop(tok, outs, n, stop) ==
    /\ tok # eos_token_id
    /\ tok # im_end_id
    /\ UnsignedLess(Len(outs), n)

\* faulty variant: the sizes are compared with n_predict as signed numbers
NonStreamLoopCond_signed(tok, outs, n, stop) ==
    /\ tok # eos_token_id
    /\ tok # im_end_id
    /\ Len(outs) < n
    /\ ~stop

\* while-condition of the non-streaming overload
NonStreamLoopCond(tok, outs, n, stop) ==
    /\ tok # eos_token_id
    /\ tok # im_end_id
    /\ UnsignedLess(Len(outs), n)
    /\ ~stop

\* faulty variant: the streaming loop body does not test the stop flag
StreamStopCheck_never(stop) == FALSE

\* if (_stop_generation) at the head of the streaming loop body
StreamStopCheck(stop) == stop

ApiIdleLocals ==
    /\ mode' = "none" /\ prompt' = <<>> /\ n_predict' = 0
    /\ input_ids' = <<>> /\ history_ids' = <<>> /\ output_ids' = <<>>
    /\ output_token' = 0 /\ cb_log' = <<>> /\ cb_stop_at' = 0 /\ stop_at' = -1
    /\ decode_steps' = 0 /\ prefill_snapshot' = <<>>

InitApi ==
    /\ api_status = "init"
    /\ infer_request = Null
    /\ tokenizer = "null"
    /\ stop_generation = FALSE
    /\ new_token_id = im_end_id
    /\ perf_statistic = ZeroPerf
    /\ pc = "idle"
    /\ mode = "none" /\ prompt = <<>> /\ n_predict = 0
    /\ input_ids = <<>> /\ history_ids = <<>> /\ output_ids = <<>>
    /\ output_token = 0 /\ cb_log = <<>> /\ cb_stop_at = 0 /\ stop_at = -1
    /\ decode_steps = 0 /\ prefill_snapshot = <<>>
    /\ calls = 0
    /\ after_reset = FALSE

ApiOff ==
    /\ api_status = "init"
    /\ infer_request = Null
    /\ tokenizer = "null"
    /\ stop_generation = FALSE
    /\ new_token_id = im_end_id
    /\ perf_statistic = ZeroPerf
    /\ pc = "off"
    /\ mode = "none" /\ prompt = <<>> /\ n_predict = 0
    /\ input_ids = <<>> /\ history_ids = <<>> /\ output_ids = <<>>
    /\ output_token = 0 /\ cb_log = <<>> /\ cb_stop_at = 0 /\ stop_at = -1
    /\ decode_steps = 0 /\ prefill_snapshot = <<>>
    /\ calls = 0
    /\ after_reset = FALSE

\* the other programs do not run
OthersUnchanged == UNCHANGED <<streamer_vars, main_vars, sampler_vars, kwargs_vars>>

LocalsUnchanged ==
    UNCHANGED <<mode, prompt, n_predict, input_ids, history_ids, output_ids,
                output_token, cb_log, cb_stop_at, stop_at, decode_steps,
                prefill_snapshot>>

api_loadmodel ==
    /\ OthersUnchanged
    /\ pc = "idle"
    /\ infer_request' = <<FreshRequest>>
    /\ perf_statistic' = [perf_statistic EXCEPT !.llm_load_duration = 1]
    /\ api_status' = "loaded"
    /\ after_reset' = FALSE
    /\ UNCHANGED <<tokenizer, stop_generation, new_token_id, pc, calls>>
    /\ LocalsUnchanged

api_loadtokenizer ==
    /\ OthersUnchanged
    /\ pc = "idle"
    /\ tokenizer' = "loaded"
    /\ perf_statistic' = [perf_statistic EXCEPT !.tokenizer_load_duration = 1]
    /\ after_reset' = FALSE
    /\ UNCHANGED <<api_status, infer_request, stop_generation, new_token_id, pc, calls>>
    /\ LocalsUnchanged

\* entry of either api_Generate overload: _api_status = status::inference
GenerateEnter(m, p, n) ==
    /\ OthersUnchanged
    /\ pc = "idle"
    /\ calls < MaxCalls
    /\ api_status' = "inference"
    /\ pc' = "encode"
    /\ mode' = m /\ prompt' = p /\ n_predict' = n
    /\ calls' = calls + 1
    /\ UNCHANGED <<infer_request, tokenizer, stop_generation, new_token_id,
                   perf_statistic, input_ids, history_ids, output_ids, output_token,
                   cb_log, cb_stop_at, stop_at, decode_steps, prefill_snapshot,
                   after_reset>>

api_Generate_stream == \E p \in Prompts, n \in NPredictSet : GenerateEnter("stream", p, n)

api_Generate_nonstream == \E p \in Prompts, n \in NPredictSet : GenerateEnter("nonstream", p, n)

\* encode the prompt, then generate_first_token up to start_async.  A null
\* _tokenizer or _infer_request is dereferenced here: the process crashes.
GeneratePrefill ==
    /\ OthersUnchanged
    /\ pc = "encode"
    /\ IF tokenizer = "null"
       THEN /\ pc' = "crashed"
            /\ UNCHANGED <<input_ids, history_ids, perf_statistic, infer_request>>
       ELSE /\ input_ids' = prompt
            /\ history_ids' = prompt
            /\ perf_statistic' = [perf_statistic EXCEPT !.input_token_num = Len(prompt)]
            /\ IF infer_request = Null
               THEN pc' = "crashed" /\ UNCHANGED infer_request
               ELSE /\ infer_request' = <<StartAsync(PrefillSetup(Deref(infer_request), prompt))>>
                    /\ pc' = "first_infer"
    /\ UNCHANGED <<api_status, tokenizer, stop_generation, new_token_id, mode, prompt,
                   n_predict, output_ids, output_token, cb_log, cb_stop_at, stop_at,
                   decode_steps, prefill_snapshot, calls, after_reset>>

\* wait() throws ov::Cancelled when cancel() reached the running inference: the
\* exception leaves api_Generate without the statistics and the status update
GenerateCancelled ==
    /\ OthersUnchanged
    /\ pc \in {"first_infer", "next_infer"}
    /\ Deref(infer_request).cancelled
    /\ infer_request' = <<[Deref(infer_request) EXCEPT !.running = FALSE]>>
    /\ pc' = "idle"
    /\ ApiIdleLocals
    /\ after_reset' = FALSE
    /\ UNCHANGED <<api_status, tokenizer, stop_generation, new_token_id,
                   perf_statistic, calls>>

\* the callback is invoked with &_new_token_id and &_stop_generation; it may set the flag
CallbackEffect(tok, set, k) ==
    /\ cb_log' = Append(cb_log, tok)
    /\ stop_generation' = (stop_generation \/ set)
    /\ cb_stop_at' = IF set /\ cb_stop_at = 0 THEN k ELSE cb_stop_at

\* the prefill inference returns: first token, callback, set_shape({BATCH_SIZE, 1})
GenerateFirstToken ==
    /\ OthersUnchanged
    /\ pc = "first_infer"
    /\ \E tok \in GenTokens, set \in (IF mode = "stream" THEN BOOLEAN ELSE {FALSE}) :
         LET done == Infer(Deref(infer_request))
         IN  /\ perf_statistic' =
                    [perf_statistic EXCEPT
                        !.llm_first_infer_duration = 1,
                        !.llm_prompt_evaluation_speed =
                            Ratio(perf_statistic.input_token_num, 1)]
             /\ prefill_snapshot' = <<Snapshot(done), LogitsData(done)>>
             /\ infer_request' = <<ShapeToOne(done)>>
             /\ output_token' = tok
             /\ history_ids' = Append(history_ids, tok)
             /\ IF mode = "stream"
                THEN /\ new_token_id' = tok
                     /\ CallbackEffect(tok, set, 1)
                     /\ UNCHANGED output_ids
                ELSE /\ output_ids' = Append(output_ids, tok)
                     /\ UNCHANGED <<new_token_id, cb_log, cb_stop_at, stop_generation>>
    /\ pc' = "loop"
    /\ UNCHANGED <<api_status, tokenizer, mode, prompt, n_predict, input_ids, stop_at,
                   decode_steps, calls, after_reset>>

\* one evaluation of the while-condition and, when it holds, the start of the
\* loop body: the stop check and generate_next_token up to start_async
GenerateLoop ==
    /\ OthersUnchanged
    /\ pc = "loop"
    /\ IF mode = "stream"
       THEN IF ~StreamLoopCond(output_token, history_ids, input_ids, n_predict)
            THEN /\ pc' = "finish"
                 /\ UNCHANGED <<infer_request, decode_steps, cb_log, cb_stop_at,
                                stop_generation>>
            ELSE IF StreamStopCheck(stop_generation)
                 THEN /\ \E set \in BOOLEAN :
                            CallbackEffect(new_token_id, set, Len(Produced))
                      /\ pc' = "finish"
                      /\ UNCHANGED <<infer_request, decode_steps>>
                 ELSE /\ Len(Produced) < MaxTokens
                      /\ infer_request' = <<StartAsync(DecodeSetup(Deref(infer_request), output_token))>>
                      /\ decode_steps' = decode_steps + 1
                      /\ pc' = "next_infer"
                      /\ UNCHANGED <<cb_log, cb_stop_at, stop_generation>>
       ELSE IF ~NonStreamLoopCond(output_token, output_ids, n_predict, stop_generation)
            THEN /\ pc' = "finish"
                 /\ UNCHANGED <<infer_request, decode_steps, cb_log, cb_stop_at,
                                stop_generation>>
            ELSE /\ Len(Produced) < MaxTokens
                 /\ infer_request' = <<StartAsync(DecodeSetup(Deref(infer_request), output_token))>>
                 /\ decode_steps' = decode_steps + 1
                 /\ pc' = "next_infer"
                 /\ UNCHANGED <<cb_log, cb_stop_at, stop_generation>>
    /\ UNCHANGED <<api_status, tokenizer, new_token_id, perf_statistic, mode, prompt,
                   n_predict, input_ids, history_ids, output_ids, output_token, stop_at,
                   prefill_snapshot, calls, after_reset>>

\* a decode inference returns: next token, callback, push_back
GenerateNextToken ==
    /\ OthersUnchanged
    /\ pc = "next_infer"
    /\ \E tok \in GenTokens, set \in (IF mode = "stream" THEN BOOLEAN ELSE {FALSE}) :
         /\ infer_request' = <<Infer(Deref(infer_request))>>
         /\ perf_statistic' =
                [perf_statistic EXCEPT
                    !.llm_generate_next_token_duration = @ + 1]
         /\ output_token' = tok
         /\ history_ids' = Append(history_ids, tok)
         /\ IF mode = "stream"
            THEN /\ new_token_id' = tok
                 /\ CallbackEffect(tok, set, Len(Produced) + 1)
                 /\ UNCHANGED output_ids
            ELSE /\ output_ids' = Append(output_ids, tok)
                 /\ UNCHANGED <<new_token_id, cb_log, cb_stop_at, stop_generation>>
    /\ pc' = "loop"
    /\ UNCHANGED <<api_status, tokenizer, mode, prompt, n_predict, input_ids, stop_at,
                   decode_steps, prefill_snapshot, calls, after_reset>>

\* generated_token_num as each overload computes it after its loop
StreamGeneratedTokenNum(hist, ids) == Len(hist) - Len(ids)
NonStreamGeneratedTokenNum(outs) == Len(outs) - 1

\* after the loop: the statistics, _api_status = status::loaded, return
GenerateFinish ==
    /\ OthersUnchanged
    /\ pc = "finish"
    /\ LET num == IF mode = "stream"
                  THEN StreamGeneratedTokenNum(history_ids, input_ids)
                  ELSE NonStreamGeneratedTokenNum(output_ids)
       IN  perf_statistic' =
               [perf_statistic EXCEPT
                   !.generated_token_num = num,
                   !.llm_average_token_per_second =
                       Ratio(num, perf_statistic.llm_generate_next_token_duration)]
    /\ api_status' = "loaded"
    /\ pc' = "idle"
    /\ ApiIdleLocals
    /\ after_reset' = FALSE
    /\ UNCHANGED <<infer_request, tokenizer, stop_generation, new_token_id, calls>>

\* perf counters, _new_token_id, _stop_generation and _api_status as api_Reset sets them
ResetPerf(perf) == ZeroPerf
\* faulty variant: api_Reset leaves the stop flag as it is
ResetStop_kept(stop) == stop
\* _stop_generation = false
ResetStop(stop) == FALSE

api_Reset ==
    /\ OthersUnchanged
    /\ pc = "idle"
    /\ IF infer_request = Null
       THEN /\ pc' = "crashed"
            /\ UNCHANGED <<infer_request, perf_statistic, new_token_id, stop_generation,
                           api_status, after_reset>>
       ELSE /\ infer_request' = <<ResetState(Deref(infer_request))>>
            /\ perf_statistic' = ResetPerf(perf_statistic)
            /\ new_token_id' = im_end_id
            /\ stop_generation' = ResetStop(stop_generation)
            /\ api_status' = "loaded"
            /\ after_reset' = TRUE
            /\ pc' = "idle"
    /\ UNCHANGED <<tokenizer, calls>>
    /\ LocalsUnchanged

api_unloadmodel ==
    /\ OthersUnchanged
    /\ pc = "idle"
    /\ infer_request' = Null
    /\ perf_statistic' = [perf_statistic EXCEPT !.llm_unload_duration = 1]
    /\ api_status' = "unloaded"
    /\ after_reset' = FALSE
    /\ UNCHANGED <<tokenizer, stop_generation, new_token_id, pc, calls>>
    /\ LocalsUnchanged

\* api_stop may be called by another thread while api_Generate runs
api_stop ==
    /\ OthersUnchanged
    /\ pc \in {"idle", "encode", "first_infer", "loop", "next_infer", "finish"}
    /\ IF infer_request = Null
       THEN /\ pc' = "crashed"
            /\ UNCHANGED <<infer_request, stop_generation, perf_statistic, api_status,
                           stop_at, after_reset>>
       ELSE /\ infer_request' =
                   <<[Deref(infer_request) EXCEPT
                        !.cancelled = Deref(infer_request).running]>>
            /\ stop_generation' = TRUE
            /\ perf_statistic' = [perf_statistic EXCEPT !.llm_cancel_duration = 1]
            /\ api_status' = "loaded"
            /\ stop_at' = IF pc # "idle" /\ stop_at = -1 THEN Len(Produced) ELSE stop_at
            /\ after_reset' = (after_reset /\ pc # "idle")
            /\ pc' = pc
    /\ UNCHANGED <<tokenizer, new_token_id, mode, prompt, n_predict, input_ids,
                   history_ids, output_ids, output_token, cb_log, cb_stop_at,
                   decode_steps, prefill_snapshot, calls>>

\* ~api_interface(): api_stop(); api_unloadmodel();
Destructor ==
    /\ OthersUnchanged
    /\ pc = "idle"
    /\ IF infer_request = Null
       THEN /\ pc' = "crashed"
            /\ UNCHANGED <<infer_request, stop_generation, perf_statistic, api_status>>
       ELSE /\ infer_request' = Null
            /\ stop_generation' = TRUE
            /\ perf_statistic' = [perf_statistic EXCEPT !.llm_cancel_duration = 1,
                                                        !.llm_unload_duration = 1]
            /\ api_status' = "unloaded"
            /\ pc' = "destroyed"
    /\ after_reset' = FALSE
    /\ UNCHANGED <<tokenizer, new_token_id, calls>>
    /\ LocalsUnchanged


----------------------------------------------------------------------------
(* The detokenizer, as TextStreamer's comment describes it: it removes the  *)
(* starting ' ' of the text, and a printable glyph may consist of two token *)
(* ids, of which the first alone decodes to the replacement character.      *)
(* Text is a sequence of bytes; "nl" is '\n'.                               *)

\* the three bytes of U+FFFD, the string "�" the streamer compares with
Marker == <<"EF", "BF", "BD">>
\* the three bytes of the glyph that tokens 4 and 5 make together
Glyph == <<"E4", "BD", "A0">>

\* token ids put is given: 0 "b", 1 " a", 2 the EOS token (no text), 3 "\n",
\* 4 and 5 the two halves of Glyph
StreamTokens == 0 .. 5

Piece(t) ==
    CASE t = 0 -> <<"b">>
      [] t = 1 -> <<" ", "a">>
      [] t = 2 -> <<>>
      [] t = 3 -> <<"nl">>
      [] t = 4 -> <<"E4">>
      [] t = 5 -> <<"BD", "A0">>

RECURSIVE Bytes(_)
Bytes(tokens) ==
    IF tokens = <<>> THEN <<>> ELSE Piece(Head(tokens)) \o Bytes(Tail(tokens))

\* UTF-8 decoding with replacement: a byte sequence that is no complete
\* character becomes the replacement character
RECURSIVE Utf8Replace(_)
Utf8Replace(bs) ==
    IF bs = <<>> THEN <<>>
    ELSE IF Head(bs) = "E4"
         THEN IF Len(bs) >= 3 /\ bs[2] = "BD" /\ bs[3] = "A0"
              THEN Glyph \o Utf8Replace(SubSeq(bs, 4, Len(bs)))
              ELSE IF Len(bs) >= 2 /\ bs[2] = "BD"
                   THEN Marker \o Utf8Replace(SubSeq(bs, 3, Len(bs)))
                   ELSE Marker \o Utf8Replace(Tail(bs))
         ELSE IF Head(bs) \in {"BD", "A0"}
              THEN Marker \o Utf8Replace(Tail(bs))
              ELSE <<Head(bs)>> \o Utf8Replace(Tail(bs))

StripLeadingSpace(text) ==
    IF text # <<>> /\ Head(text) = " " THEN Tail(text) ELSE text

\* detokenize(detokenizer, tokens)
Detok(tokens) == StripLeadingSpace(Utf8Replace(Bytes(tokens)))

----------------------------------------------------------------------------
(* TextStreamer *)

EndsWithNewline(text) == text # <<>> /\ text[Len(text)] = "nl"
EndsWithMarker(text) == Len(text) >= 3 /\ SubSeq(text, Len(text) - 2, Len(text)) = Marker

\* faulty variant: the whole text is written again
View_whole(text, plen) == text
\* std::string_view{text.data() + print_len, text.size() - print_len}
View(text, plen) == SubSeq(text, plen + 1, Len(text))
\* the view's length is size_t: with print_len > text.size() it wraps around and
\* the stream insertion reads past the string
ViewOutOfRange(text, plen) == plen > Len(text)

\* faulty variant: put decodes the new token alone instead of the whole token_cache
PutResult_noCache(cache, plen, token) ==
    LET cache2 == Append(cache, token)
        text == Detok(<<token>>)
    IN  IF EndsWithNewline(text)
        THEN [ token_cache |-> <<>>, print_len |-> 0, chunk |-> text, ub |-> FALSE ]
        ELSE IF EndsWithMarker(text)
             THEN [ token_cache |-> cache2, print_len |-> plen,
                    chunk |-> <<>>, ub |-> FALSE ]
             ELSE [ token_cache |-> cache2, print_len |-> plen + Len(text),
                    chunk |-> text, ub |-> FALSE ]

\* faulty variant: put does not hold incomplete text back
PutResult_noHold(cache, plen, token) ==
    LET cache2 == Append(cache, token)
        text == Detok(cache2)
    IN  IF EndsWithNewline(text)
        THEN [ token_cache |-> <<>>, print_len |-> 0,
               chunk |-> View(text, plen), ub |-> ViewOutOfRange(text, plen) ]
        ELSE [ token_cache |-> cache2, print_len |-> Len(text),
               chunk |-> View(text, plen), ub |-> ViewOutOfRange(text, plen) ]

\* TextStreamer::put: the new token_cache and print_len and the text written
PutResult(cache, plen, token) ==
    LET cache2 == Append(cache, token)
        text == Detok(cache2)
    IN  IF EndsWithNewline(text)
        THEN [ token_cache |-> <<>>, print_len |-> 0,
               chunk |-> View(text, plen), ub |-> ViewOutOfRange(text, plen) ]
        ELSE IF EndsWithMarker(text)
             THEN [ token_cache |-> cache2, print_len |-> plen,
                    chunk |-> <<>>, ub |-> FALSE ]
             ELSE [ token_cache |-> cache2, print_len |-> Len(text),
                    chunk |-> View(text, plen), ub |-> ViewOutOfRange(text, plen) ]

\* faulty variant: end() does not reset print_len
EndResult_keepLen(cache, plen) ==
    LET text == Detok(cache)
    IN  [ token_cache |-> <<>>, print_len |-> plen,
          chunk |-> View(text, plen) \o <<"nl">>, ub |-> ViewOutOfRange(text, plen) ]

\* TextStreamer::end
EndResult(cache, plen) ==
    LET text == Detok(cache)
    IN  [ token_cache |-> <<>>, print_len |-> 0,
          chunk |-> View(text, plen) \o <<"nl">>, ub |-> ViewOutOfRange(text, plen) ]

PutEffect(token) ==
    LET r == PutResult(token_cache, print_len, token)
    IN  /\ token_cache' = r.token_cache
        /\ print_len' = r.print_len
        /\ chunks' = Append(chunks, [op |-> "put", text |-> r.chunk])
        /\ put_log' = Append(put_log, token)
        /\ st_pc' = IF r.ub THEN "ub" ELSE st_pc

EndEffect ==
    LET r == EndResult(token_cache, print_len)
    IN  /\ token_cache' = r.token_cache
        /\ print_len' = r.print_len
        /\ chunks' = Append(chunks, [op |-> "end", text |-> r.chunk])
        /\ put_log' = put_log
        /\ st_pc' = IF r.ub THEN "ub" ELSE "ended"

\* TextStreamer text_streamer{...}: empty token_cache, print_len = 0
StreamerNew ==
    /\ token_cache = <<>>
    /\ print_len = 0
    /\ put_log = <<>>
    /\ chunks = <<>>

\* puts of one behaviour of the streamer alone
MaxPuts == 4

StreamerPut ==
    /\ st_pc = "open"
    /\ Len(put_log) < MaxPuts
    /\ \E t \in StreamTokens : PutEffect(t)
    /\ UNCHANGED <<kwargs_vars, api_vars, main_vars, sampler_vars>>

StreamerEnd ==
    /\ st_pc = "open"
    /\ EndEffect
    /\ UNCHANGED <<kwargs_vars, api_vars, main_vars, sampler_vars>>

----------------------------------------------------------------------------
(* get_out_token_id *)

\* calls that draw from the RNG in one behaviour
MaxDraws == 2

\* logits arrays tried: vocab_size 1, 2 and 3, with and without equal maxima
LogitsSet == { <<0>>, <<4, 4>>, <<0, 4>>, <<4, 0, 4>>, <<-4, 0, -4>> }
\* history_ids tried
HistorySet == { <<>>, <<1, 0>> }
SeedSet == { 0, 1 }
\* params tried; temperature and repeat_penalty are whole numbers here, top_p a
\* fraction <<numerator, denominator>>
TemperatureSet == { 0, 2 }
TopKSet == { 0, 1, 2 }
TopPSet == { <<0, 1>>, <<1, 2>>, <<1, 1>> }
RepeatPenaltySet == { 1, 2 }
RepeatLastNSet == { 0, 1, 64 }
ParamsSet ==
    [ temperature : TemperatureSet, top_k : TopKSet, top_p : TopPSet,
      repeat_penalty : RepeatPenaltySet, repeat_last_n : RepeatLastNSet ]

Min(a, b) == IF a < b THEN a ELSE b
RECURSIVE Pow2(_)
Pow2(n) == IF n <= 0 THEN 1 ELSE 2 * Pow2(n - 1)
RECURSIVE SumWeights(_)
SumWeights(ws) == IF ws = <<>> THEN 0 ELSE Head(ws) + SumWeights(Tail(ws))

\* sampling_repetition_penalty: the logit of each of the last n tokens of the
\* history is divided by the penalty when positive, multiplied by it otherwise
sampling_repetition_penalty(ls, history, n, penalty) ==
    LET used == { history[i] : i \in (Len(history) - n + 1) .. Len(history) }
    IN  [i \in 1 .. Len(ls) |->
            IF (i - 1) \in used
            THEN IF ls[i] > 0 THEN ls[i] \div penalty ELSE ls[i] * penalty
            ELSE ls[i]]

\* sampling_temperature: every logit divided by the temperature
sampling_temperature(ls, temperature) == [i \in 1 .. Len(ls) |-> ls[i] \div temperature]

\* TokenIdScore((int)i, logits[i]) for every i
MakeTokenScores(ls) == [i \in 1 .. Len(ls) |-> [id |-> i - 1, score |-> ls[i]]]

\* a goes before b in descending score, equal scores by ascending id
Before(a, b) == a.score > b.score \/ (a.score = b.score /\ a.id < b.id)
RECURSIVE SortDescending(_)
SortDescending(ts) ==
    IF ts = <<>> THEN <<>>
    ELSE LET first == CHOOSE i \in 1 .. Len(ts) :
                          \A j \in 1 .. Len(ts) : j # i => Before(ts[i], ts[j])
             rest == [j \in 1 .. Len(ts) - 1 |-> IF j < first THEN ts[j] ELSE ts[j + 1]]
         IN  <<ts[first]>> \o SortDescending(rest)

\* sampling_top_k: the k highest pairs come first
sampling_top_k(ts, k) == SortDescending(ts)

\* the softmax weights of a list, up to their common factor: 2 to the score
\* above the lowest score of the list (the scores are logarithms to base 2)
Weights(ts) ==
    LET low == CHOOSE m \in { ts[i].score : i \in 1 .. Len(ts) } :
                   \A i \in 1 .. Len(ts) : m <= ts[i].score
    IN  [i \in 1 .. Len(ts) |-> Pow2(ts[i].score - low)]

\* sampling_top_p: the list in descending score, and the length of its shortest
\* prefix whose probability mass is at least top_p
sampling_top_p(ts, top_p) ==
    LET sorted == SortDescending(ts)
        w == Weights(sorted)
        total == SumWeights(w)
        pos == CHOOSE n \in 1 .. Len(sorted) :
                   /\ SumWeights(SubSeq(w, 1, n)) * top_p[2] >= top_p[1] * total
                   /\ \A m \in 1 .. n - 1 :
                          SumWeights(SubSeq(w, 1, m)) * top_p[2] < top_p[1] * total
    IN  IF ts = <<>> THEN [list |-> <<>>, pos |-> 0] ELSE [list |-> sorted, pos |-> pos]

\* the engine's next 32 bits, as a function of its seed and of the draws made
Mt19937(seed, draws) == 7 * seed + 3 * draws + 1

\* std::discrete_distribution over the weights, drawn with the engine's next
\* output: the 0-based index at which the running sum of the weights passes it
DiscreteDraw(w, r) ==
    LET u == r % SumWeights(w)
    IN  (CHOOSE n \in 1 .. Len(w) :
             /\ SumWeights(SubSeq(w, 1, n)) > u
             /\ \A m \in 1 .. n - 1 : SumWeights(SubSeq(w, 1, m)) <= u) - 1

\* the pre-processing of the logits: if (params.repeat_penalty != 1.f) ...
PreProcess(ls, history, p) ==
    IF p.repeat_penalty # 1
    THEN LET penalty_tokens_used_size == Min(Len(history), p.repeat_last_n)
         IN  IF penalty_tokens_used_size # 0
             THEN sampling_repetition_penalty(ls, history, penalty_tokens_used_size,
                                              p.repeat_penalty)
             ELSE ls
    ELSE ls

\* if (params.temperature > 0) sampling_temperature(...)
Temper(ls, p) == IF p.temperature > 0 THEN sampling_temperature(ls, p.temperature) ELSE ls

\* faulty variant: top_k = 0 is not excluded
TopKApplies_noLowerBound(top_k, size) == top_k < size
\* if (0 < params.top_k && params.top_k < (int)token_scores.size())
TopKApplies(top_k, size) == 0 < top_k /\ top_k < size

\* ... sampling_top_k(...); token_scores.resize(params.top_k)
TopK(ts, p) ==
    IF TopKApplies(p.top_k, Len(ts))
    THEN SubSeq(sampling_top_k(ts, p.top_k), 1, p.top_k)
    ELSE ts

\* if (0.f < params.top_p && params.top_p < 1.f) ... resize(pos - data())
TopP(ts, p) ==
    IF 0 < p.top_p[1] /\ p.top_p[1] < p.top_p[2]
    THEN LET r == sampling_top_p(ts, p.top_p) IN SubSeq(r.list, 1, r.pos)
    ELSE ts

\* faulty variant: the scan keeps the last of equal maxima
max_element_last(ls) ==
    CHOOSE i \in 0 .. Len(ls) - 1 :
        /\ \A j \in 1 .. Len(ls) : ls[j] <= ls[i + 1]
        /\ \A j \in i + 2 .. Len(ls) : ls[j] < ls[i + 1]

RECURSIVE MaxScan(_, _, _)
\* the left-to-right scan of std::max_element: best is replaced only by a
\* strictly greater element
MaxScan(ls, best, i) ==
    IF i > Len(ls) THEN best
    ELSE MaxScan(ls, IF ls[best] < ls[i] THEN i ELSE best, i + 1)
\* std::max_element(logits, logits + vocab_size) - logits
max_element(ls) == MaxScan(ls, 1, 2) - 1

\* the thread's RNG before its first use
RngUnseeded == [seeded |-> FALSE, seed |-> 0, draws |-> 0]
\* faulty variant: every call constructs the engine anew from its seed
RngInit_reseed(r, seed) == [seeded |-> TRUE, seed |-> seed, draws |-> 0]
\* thread_local std::mt19937 rng(params.seed): constructed by the first call
\* that reaches the declaration, with that call's seed
RngInit(r, seed) == IF r.seeded THEN r ELSE [seeded |-> TRUE, seed |-> seed, draws |-> 0]

NoCall == [logits |-> <<>>, history_ids |-> <<>>, do_sample |-> FALSE, seed |-> 0]
NoParams == [temperature |-> 0, top_k |-> 0, top_p |-> <<0, 1>>, repeat_penalty |-> 1,
             repeat_last_n |-> 0]

SamplerOff ==
    /\ s_pc = "off" /\ params = NoParams /\ sample_call = NoCall
    /\ logits = <<>> /\ token_scores = <<>> /\ sampled_token = 0 /\ rng = RngUnseeded

\* before the first call, with the params of the calls to come
SamplerReady ==
    /\ s_pc = "ready" /\ params \in ParamsSet /\ sample_call = NoCall
    /\ logits = <<>> /\ token_scores = <<>> /\ sampled_token = 0 /\ rng = RngUnseeded

\* the history ids index the logits: they are ids of the vocabulary
ValidHistory(ls, history) == \A i \in 1 .. Len(history) : history[i] < Len(ls)

\* get_out_token_id with do_sample false
GetOutTokenIdGreedy ==
    /\ s_pc # "off"
    /\ \E ls \in LogitsSet, history \in HistorySet, seed \in SeedSet :
          /\ ValidHistory(ls, history)
          /\ sample_call' = [logits |-> ls, history_ids |-> history,
                             do_sample |-> FALSE, seed |-> seed]
          /\ logits' = PreProcess(ls, history, params)
          /\ sampled_token' = max_element(logits')
    /\ token_scores' = <<>>
    /\ s_pc' = "called"
    /\ UNCHANGED <<params, rng>>
    /\ UNCHANGED <<kwargs_vars, api_vars, streamer_vars, main_vars>>

\* get_out_token_id with do_sample true
GetOutTokenIdSample ==
    /\ s_pc # "off"
    /\ rng.draws < MaxDraws
    /\ \E ls \in LogitsSet, history \in HistorySet, seed \in SeedSet :
          /\ ValidHistory(ls, history)
          /\ sample_call' = [logits |-> ls, history_ids |-> history,
                             do_sample |-> TRUE, seed |-> seed]
          /\ logits' = Temper(PreProcess(ls, history, params), params)
          /\ token_scores' = TopP(TopK(MakeTokenScores(logits'), params), params)
          /\ LET r == RngInit(rng, seed)
             IN  /\ rng' = [r EXCEPT !.draws = r.draws + 1]
                 /\ sampled_token' =
                        IF token_scores' = <<>> THEN -1
                        ELSE token_scores'[DiscreteDraw(Weights(token_scores'),
                                                        Mt19937(r.seed, r.draws)) + 1].id
    /\ s_pc' = "called"
    /\ UNCHANGED params
    /\ UNCHANGED <<kwargs_vars, api_vars, streamer_vars, main_vars>>

\* the next call comes from a thread that has made no call yet
NewThread ==
    /\ s_pc = "called"
    /\ rng.seeded
    /\ rng' = RngUnseeded
    /\ UNCHANGED <<s_pc, params, sample_call, logits, token_scores, sampled_token>>
    /\ UNCHANGED <<kwargs_vars, api_vars, streamer_vars, main_vars>>

----------------------------------------------------------------------------
(* update_whisper_config_from_kwargs *)

\* most keyword arguments of one call tried
MaxKwargs == 3

\* a py::object: <<>> is None, <<v>> the value v
None == <<>>
is_none(value) == value = None

\* two of the names the function knows, and one it does not know
KnownKeys == { "max_new_tokens", "max_length" }
KwargKeys == KnownKeys \cup { "typical_p" }
KwargValues == { None, <<1>>, <<2>> }

\* WhisperGenerationConfig res_config: the two fields kept, with the values of
\* a default-constructed config written 0
DefaultConfig == [ max_new_tokens |-> 0, max_length |-> 0 ]
\* the config arguments tried: none, and one with its fields set
ConfigArgs == { <<>>, << [ max_new_tokens |-> 7, max_length |-> 7 ] >> }

\* py::kwargs is a dict: its names differ, and it iterates in insertion order
KwargsArgs ==
    { kws \in UNION { [1 .. n -> KwargKeys \X KwargValues] : n \in 0 .. MaxKwargs } :
          \A i, j \in 1 .. Len(kws) : i # j => kws[i][1] # kws[j][1] }

\* the for loop over kwargs, from res_config on
RECURSIVE ApplyKwargs(_, _)
ApplyKwargs(res_config, kws) ==
    IF kws = <<>> THEN [kind |-> "config", config |-> res_config]
    ELSE LET key == Head(kws)[1]
             value == Head(kws)[2]
         IN  IF is_none(value)
             THEN [kind |-> "config", config |-> res_config]
             ELSE IF key \in KnownKeys
                  THEN ApplyKwargs([res_config EXCEPT ![key] = value[1]], Tail(kws))
                  ELSE [kind |-> "invalid_argument", config |-> res_config]

update_whisper_config_from_kwargs(config, kws) ==
    IF config = <<>> /\ kws = <<>>
    THEN [kind |-> "nullopt", config |-> DefaultConfig]
    ELSE ApplyKwargs(IF config # <<>> THEN config[1] ELSE DefaultConfig, kws)

NoResult == [kind |-> "none", config |-> DefaultConfig]

KwargsOff ==
    kw_pc = "off" /\ kw_config = <<>> /\ kw_kwargs = <<>> /\ kw_result = NoResult

KwargsReady ==
    /\ kw_pc = "ready"
    /\ kw_config \in ConfigArgs
    /\ kw_kwargs \in KwargsArgs
    /\ kw_result = NoResult

\* one call of the function
UpdateWhisperConfig ==
    /\ kw_pc = "ready"
    /\ kw_result' = update_whisper_config_from_kwargs(kw_config, kw_kwargs)
    /\ kw_pc' = "returned"
    /\ UNCHANGED <<kw_config, kw_kwargs>>
    /\ UNCHANGED <<api_vars, streamer_vars, main_vars, sampler_vars>>

----------------------------------------------------------------------------
(* main() of the speculative-decoding sample *)

SPECIAL_EOS_TOKEN == 2
max_iter == 50

\* tokenize(tokenizer, argv[3]) of the prompts tried
MainPrompts == { <<0>>, <<1, 0>> }
\* the draft inferences whose argmax is made the EOS id: early, and around max_iter
DraftEosAtSet == { 0, 1, 2, max_iter - 1, max_iter, max_iter + 1 }
\* the draft's other argmax tokens, repeated in turn
DraftPatterns == << <<0>>, <<1, 0, 3>>, <<4, 5, 1>> >>
\* argmax values of the target's prefill logits tried
TargetFirstSet == { 0, 1, 2 }

\* a request of the sample: its models take the KV cache as tensors
NewRequest ==
    [ input_ids |-> <<>>, attention_mask |-> <<>>, position_ids |-> <<>>,
      past_key_values |-> <<>>, present |-> <<>>, logits |-> <<>> ]

\* infer(): one row of logits per input position; a row is a function of the
\* positions it attends to, the cache and the inputs up to its own
MainInfer(req) ==
    LET new == Zip(req.input_ids, req.position_ids)
    IN  [req EXCEPT !.present = req.past_key_values \o new,
                    !.logits = [i \in 1 .. Len(new) |->
                                    req.past_key_values \o SubSeq(new, 1, i)]]

\* the argmax of the draft model's logits after its k-th decode step (0: prefill)
DraftScript(k) ==
    LET pat == DraftPatterns[draft_pat]
    IN  IF k = draft_eos_at THEN SPECIAL_EOS_TOKEN ELSE pat[(k % Len(pat)) + 1]

\* the draft model: the argmax of a row of its logits
DraftArgmax(row) == DraftScript(Len(row) - Len(main_prompt))

\* the target model: the argmax of a row of its logits
TargetArgmax(row) == IF Len(row) = Len(main_prompt) THEN target_first ELSE 0

\* init_key_values
init_key_values(req) == [req EXCEPT !.past_key_values = <<>>]
\* faulty variant: the present tensors are not handed over
set_key_values_stale(req) == req
\* set_key_values: past_key_values.i := present.i
set_key_values(req) == [req EXCEPT !.past_key_values = req.present]

\* the tensors of the whole prompt and the first inference
MainPrefillRequest(ids) ==
    MainInfer(init_key_values([NewRequest EXCEPT !.input_ids = ids,
                                                 !.attention_mask = Ones(Len(ids)),
                                                 !.position_ids = Iota(Len(ids))]))

\* the loop's tensor updates of one request and its inference
MainDecode(req, tok) ==
    LET mask == Ones(Len(req.attention_mask) + 1)
    IN  MainInfer(set_key_values([req EXCEPT !.input_ids = <<tok>>,
                                             !.attention_mask = mask,
                                             !.position_ids = <<Len(mask) - 2>>]))

\* faulty variant: the loop does not test iter
MainLoopCond_noMax(tok, it) == tok # SPECIAL_EOS_TOKEN
\* while-condition of the loop
MainLoopCond(tok, it) == tok # SPECIAL_EOS_TOKEN /\ it < max_iter

\* faulty variant: the next token is the target's
NextOutToken_target(draft_row, target_row) == TargetArgmax(target_row)
\* arg_max_token of the draft's logits becomes out_token; the target's logits
\* are not read (the lines that read them are commented out)
NextOutToken(draft_row, target_row) == DraftArgmax(draft_row)

\* faulty variant: the target's token is streamed
StreamedToken_target(out, target_out) == target_out
\* the argument of text_streamer.put in the loop: out_token
StreamedToken(out, target_out) == out

MainOff ==
    /\ mpc = "off"
    /\ main_prompt = <<>> /\ draft_eos_at = 0 /\ draft_pat = 1 /\ target_first = 0
    /\ iter = 0 /\ out_token = 0 /\ target_out_token = 0
    /\ lm = NewRequest /\ lm_target = NewRequest

StreamerOff == st_pc = "off" /\ StreamerNew

InitMain ==
    /\ ApiOff
    /\ SamplerOff
    /\ KwargsOff
    /\ st_pc = "open" /\ StreamerNew
    /\ mpc = "start"
    /\ main_prompt \in MainPrompts
    /\ draft_eos_at \in DraftEosAtSet
    /\ draft_pat \in 1 .. Len(DraftPatterns)
    /\ target_first \in TargetFirstSet
    /\ iter = 0 /\ out_token = 0 /\ target_out_token = 0
    /\ lm = NewRequest /\ lm_target = NewRequest

ScriptUnchanged == UNCHANGED <<main_prompt, draft_eos_at, draft_pat, target_first>>

\* up to the loop: both prefills, the two first tokens, set_shape({BATCH_SIZE, 1})
MainPrefill ==
    /\ mpc = "start"
    /\ LET n == Len(main_prompt)
           d == MainPrefillRequest(main_prompt)
           t == MainPrefillRequest(main_prompt)
       IN  /\ out_token' = DraftArgmax(d.logits[(n - 1) + 1])
           /\ target_out_token' = TargetArgmax(t.logits[(n - 1) + 1])
           /\ lm' = [d EXCEPT !.input_ids = SubSeq(d.input_ids, 1, 1),
                              !.position_ids = SubSeq(d.position_ids, 1, 1)]
           /\ lm_target' = [t EXCEPT !.input_ids = SubSeq(t.input_ids, 1, 1),
                                     !.position_ids = SubSeq(t.position_ids, 1, 1)]
    /\ iter' = 0
    /\ mpc' = "loop"
    /\ ScriptUnchanged
    /\ UNCHANGED <<kwargs_vars, api_vars, streamer_vars, sampler_vars>>

\* the loop condition holds: iter += 1 and the draft's decode step
MainDraftStep ==
    /\ mpc = "loop"
    /\ MainLoopCond(out_token, iter)
    /\ iter' = iter + 1
    /\ lm' = MainDecode(lm, out_token)
    /\ mpc' = "target"
    /\ ScriptUnchanged
    /\ UNCHANGED <<out_token, target_out_token, lm_target>>
    /\ UNCHANGED <<kwargs_vars, api_vars, streamer_vars, sampler_vars>>

\* the target's decode step
MainTargetStep ==
    /\ mpc = "target"
    /\ lm_target' = MainDecode(lm_target, target_out_token)
    /\ mpc' = "put"
    /\ ScriptUnchanged
    /\ UNCHANGED <<iter, out_token, target_out_token, lm>>
    /\ UNCHANGED <<kwargs_vars, api_vars, sampler_vars>>
    /\ UNCHANGED streamer_vars

\* text_streamer.put(out_token) and the draft's next token
MainPut ==
    /\ mpc = "put"
    /\ PutEffect(StreamedToken(out_token, target_out_token))
    /\ out_token' = NextOutToken(lm.logits[1], lm_target.logits[1])
    /\ mpc' = "loop"
    /\ ScriptUnchanged
    /\ UNCHANGED <<iter, target_out_token, lm, lm_target>>
    /\ UNCHANGED <<kwargs_vars, api_vars, sampler_vars>>

\* the loop condition fails: text_streamer.end()
MainExit ==
    /\ mpc = "loop"
    /\ ~MainLoopCond(out_token, iter)
    /\ EndEffect
    /\ mpc' = "done"
    /\ ScriptUnchanged
    /\ UNCHANGED <<iter, out_token, target_out_token, lm, lm_target>>
    /\ UNCHANGED <<kwargs_vars, api_vars, sampler_vars>>

----------------------------------------------------------------------------
(* Specifications *)

ApiStep ==
    \/ api_loadmodel
    \/ api_loadtokenizer
    \/ api_Generate_stream
    \/ api_Generate_nonstream
    \/ GeneratePrefill
    \/ GenerateCancelled
    \/ GenerateFirstToken
    \/ GenerateLoop
    \/ GenerateNextToken
    \/ GenerateFinish
    \/ api_Reset
    \/ api_unloadmodel
    \/ api_stop
    \/ Destructor

\* api_interface, from its construction
Init == InitApi /\ StreamerOff /\ MainOff /\ SamplerOff /\ KwargsOff
Next == ApiStep
Spec == Init /\ [][Next]_vars

\* a TextStreamer alone, given any tokens
InitStreamer == ApiOff /\ MainOff /\ SamplerOff /\ KwargsOff /\ st_pc = "open" /\ StreamerNew
NextStreamer == StreamerPut \/ StreamerEnd
SpecStreamer == InitStreamer /\ [][NextStreamer]_vars

\* main() of the speculative-decoding sample
NextMain == MainPrefill \/ MainDraftStep \/ MainTargetStep \/ MainPut \/ MainExit
SpecMain == InitMain /\ [][NextMain]_vars

\* get_out_token_id, called with any logits, histories and seeds
NextSampler == GetOutTokenIdGreedy \/ GetOutTokenIdSample \/ NewThread
InitSampler == SamplerReady /\ ApiOff /\ StreamerOff /\ MainOff /\ KwargsOff
SpecSampler == InitSampler /\ [][NextSampler]_vars

\* update_whisper_config_from_kwargs, called with any config and kwargs
InitKwargs == KwargsReady /\ ApiOff /\ StreamerOff /\ MainOff /\ SamplerOff
NextKwargs == UpdateWhisperConfig
SpecKwargs == InitKwargs /\ [][NextKwargs]_vars

\* the generation loops of both programs
InitLoops == Init \/ InitMain
NextLoops == Next \/ NextMain
SpecLoops == InitLoops /\ [][NextLoops]_vars

----------------------------------------------------------------------------
(* Claims about api_Generate *)

Running == pc \in {"encode", "first_infer", "loop", "next_infer", "finish"}
HasEos(toks) == \E i \in 1 .. Len(toks) : IsEos(toks[i])
LastIsEos(toks) == toks # <<>> /\ IsEos(toks[Len(toks)])

\* C1 (as claimed): for every n_predict >= 0 one api_Generate call produces at
\* most n_predict tokens, the token chosen from the prefill inference included.
\* The code produces the prefill token before it reads n_predict.
C1_AtMostNPredict ==
    (Running /\ n_predict >= 0) => Len(Produced) <= n_predict

\* C2: the parts that the claim as made and the claim as amended share.
\* At most N decode steps run, and while a decode step runs no end token has
\* been produced (api_interface, no stop request); the same for the loop of main.
C2_AtMostNSteps ==
    /\ (Running /\ n_predict >= 0) => decode_steps <= n_predict
    /\ mpc # "off" => iter <= max_iter
C2_NoStepAfterEos ==
    /\ pc = "next_infer" => ~HasEos(Produced)
    /\ mpc \in {"target", "put"} => out_token # SPECIAL_EOS_TOKEN

\* C2 (as claimed): with a token cap N and no stop request, the loop runs at
\* most N decode steps and stops before the cap if and only if an end token is
\* produced; once one is produced no further decode step runs.
C2_StopsEarlyIffEos ==
    /\ C2_AtMostNSteps
    /\ C2_NoStepAfterEos
    /\ (pc = "finish" /\ ~stop_generation /\ n_predict >= 0) =>
           (Len(Produced) < n_predict <=> HasEos(Produced))
    /\ mpc = "done" => (iter < max_iter <=> out_token = SPECIAL_EOS_TOKEN)

\* C2 (amended): with a token cap N and no stop request, the loop runs at most
\* N decode steps and stops before the cap only if the last token produced is
\* an end token (an end token can also be the token that reaches the cap);
\* once one is produced no further decode step runs.
C2_StopsEarlyOnlyIfEos ==
    /\ C2_AtMostNSteps
    /\ C2_NoStepAfterEos
    /\ (pc = "finish" /\ ~stop_generation /\ n_predict >= 0) =>
           (Len(Produced) < n_predict => LastIsEos(Produced))
    /\ mpc = "done" => (iter < max_iter => out_token = SPECIAL_EOS_TOKEN)

\* C2 witness: both ways the amended claim speaks of happen in main: the loop
\* left early on the EOS id after some decode steps
C2_Witness ==
    mpc = "done" /\ out_token = SPECIAL_EOS_TOKEN /\ 0 < iter /\ iter < max_iter

\* C3: once the callback has set the stop flag at the k-th token of a streaming
\* call, generate_next_token is not executed again in that call: the call has
\* made the k - 1 decode steps of its k tokens and no more, none is running,
\* and it ends with k tokens, fewer than n_predict when k < n_predict.
C3_CallbackStopEndsDecoding ==
    (mode = "stream" /\ cb_stop_at > 0) =>
        /\ decode_steps = cb_stop_at - 1
        /\ pc # "next_infer"
        /\ Len(Produced) = cb_stop_at
        /\ (UnsignedLess(cb_stop_at, n_predict) => UnsignedLess(Len(Produced), n_predict))

\* C3 witness: the callback set the flag at token 1 of a 2-token generation, whose
\* token 1 was no end token, and the call ended with that one token
C3_Witness ==
    /\ pc = "finish" /\ mode = "stream" /\ n_predict = 2
    /\ cb_stop_at = 1 /\ ~IsEos(output_token) /\ Len(Produced) = 1

\* C4 (as claimed): in streaming api_Generate the callback is invoked exactly
\* once for each produced token, in production order, however the loop ends.
\* The code invokes it once more with the last token when the stop flag ends the loop.
C4_CallbackOncePerToken ==
    mode = "stream" => cb_log = Produced

\* C5: after api_stop has set the stop flag during a call that had produced s
\* tokens, the call produces at most one more token (the inference in flight),
\* and any decode step then running is that one; both overloads.
C5_StopAtNextBoundary ==
    stop_at >= 0 =>
        /\ Len(Produced) <= stop_at + 1
        /\ pc = "next_infer" => Len(Produced) = stop_at

\* C5 witness: api_stop came during a decode step of the non-streaming
\* overload, whose token was still produced, and the loop ended there
C5_Witness ==
    /\ pc = "finish" /\ mode = "nonstream" /\ n_predict = -1
    /\ stop_at = 1 /\ Len(Produced) = 2 /\ ~IsEos(output_token)

\* C6 (as claimed): the status is `inference` only while a model session and a
\* tokenizer are both loaded.  api_Generate sets the status before it uses either.
C6_InferenceOnlyWhenLoaded ==
    api_status = "inference" => (infer_request # Null /\ tokenizer # "null")

CounterNames == DOMAIN ZeroPerf
RatioCounters == {"llm_prompt_evaluation_speed", "llm_average_token_per_second"}
CounterIsZero(perf, f) == IF f \in RatioCounters THEN IsZeroRatio(perf[f]) ELSE perf[f] = 0
ResetStep == pc = "idle" /\ pc' = "idle" /\ after_reset'
FinishStep == pc = "finish" /\ pc' = "idle"

\* C7 (as claimed): api_Reset resets the KV state, sets every performance
\* counter to zero and clears the stop flag, leaving the model session and the
\* tokenizer as they were and the status `loaded`; a generation that completes
\* sets no performance counter that was not zero to zero.
\* The non-streaming overload stores output_ids.size() - 1, which is 0 after a
\* one-token generation.
C7_ResetClearsCompletionDoesNot ==
    [][ /\ ResetStep =>
             /\ infer_request' # Null
             /\ Deref(infer_request').kv = <<>>
             /\ \A f \in CounterNames : CounterIsZero(perf_statistic', f)
             /\ ~stop_generation'
             /\ tokenizer' = tokenizer
             /\ api_status' = "loaded"
        /\ FinishStep =>
             \A f \in CounterNames :
                 ~CounterIsZero(perf_statistic, f) => ~CounterIsZero(perf_statistic', f)
      ]_vars

\* C8: whatever generate, stop and reset operations came before, the prefill of
\* prompt P leaves the KV state, the attention mask and the position ids, and
\* gives the logits, that the prefill of P gives on a freshly loaded session;
\* in particular after api_Reset.
C8_PrefillAsOnFreshSession ==
    prefill_snapshot # <<>> =>
        prefill_snapshot[1] = Snapshot(Infer(PrefillSetup(FreshRequest, input_ids)))

\* C8 witness: the second generation, right after api_Reset, with a prompt of
\* two tokens, has run its prefill
C8_Witness ==
    /\ prefill_snapshot # <<>> /\ after_reset /\ calls = 2 /\ Len(input_ids) = 2
    /\ pc = "loop"

----------------------------------------------------------------------------
(* Claims about TextStreamer *)

RECURSIVE Output(_)
\* everything written to the output stream, in order
Output(cs) == IF cs = <<>> THEN <<>> ELSE Head(cs).text \o Output(Tail(cs))

\* T contains no incomplete multi-token glyph
Complete(tokens) ==
    LET text == Utf8Replace(Bytes(tokens))
    IN  \A i \in 1 .. Len(text) : text[i] # Marker[1]

RECURSIVE Segments(_, _)
\* T cut after every token at which the text of the tokens since the last cut
\* ends in a newline; the last segment is what follows the last cut
Segments(seg, rest) ==
    IF rest = <<>> THEN <<seg>>
    ELSE LET seg2 == Append(seg, Head(rest))
         IN  IF EndsWithNewline(Detok(seg2))
             THEN <<seg2>> \o Segments(<<>>, Tail(rest))
             ELSE Segments(seg2, Tail(rest))

RECURSIVE DecodeEach(_)
DecodeEach(segs) == IF segs = <<>> THEN <<>> ELSE Detok(Head(segs)) \o DecodeEach(Tail(segs))

\* no segment but the first starts with a space that decode strips
NoStripAfterNewline(tokens) ==
    LET segs == Segments(<<>>, tokens)
    IN  \A i \in 2 .. Len(segs) : Detok(segs[i]) = Utf8Replace(Bytes(segs[i]))

NewlineBeforeLast(tokens) == \E i \in 1 .. Len(tokens) - 1 : tokens[i] = 3

\* C9 (as claimed): for every T with no incomplete multi-token glyph, the chunks
\* of put on each token of T in order and then end(), concatenated, are
\* decode(T) followed by one newline, newlines before the last token included.
C9_StreamEqualsDecode ==
    (st_pc = "ended" /\ Complete(put_log)) =>
        Output(chunks) = Detok(put_log) \o <<"nl">>

\* C9 (amended): for every T with no incomplete multi-token glyph, the chunks
\* of put on each token of T in order and then end(), concatenated, are the
\* decodings of the segments of T, cut after each token whose text ends the
\* cache's text in a newline, followed by one newline; that is decode(T)
\* followed by one newline when no segment after the first starts with a space
\* that decode strips.
C9_StreamEqualsDecodeOfSegments ==
    (st_pc = "ended" /\ Complete(put_log)) =>
        /\ Output(chunks) = DecodeEach(Segments(<<>>, put_log)) \o <<"nl">>
        /\ NoStripAfterNewline(put_log) => Output(chunks) = Detok(put_log) \o <<"nl">>

\* C9 witness: a stream with a stripped leading space, a newline before the
\* last token and a glyph that two tokens make, ended, whose output is decode(T)
\* and the newline
C9_Witness ==
    /\ st_pc = "ended" /\ Complete(put_log) /\ NewlineBeforeLast(put_log)
    /\ \E i \in 1 .. Len(put_log) - 1 : put_log[i] = 4 /\ put_log[i + 1] = 5
    /\ put_log[1] = 1
    /\ Output(chunks) = Detok(put_log) \o <<"nl">>

PutStep == st_pc = "open" /\ Len(put_log') = Len(put_log) + 1
EndStep == st_pc = "open" /\ st_pc' = "ended"
LastChunk(cs) == cs[Len(cs)].text
\* the text of the tokens put since the last newline flush
Cached == Detok(token_cache)
\* what put holds back and gives out: while the text of token_cache ends in the
\* marker the marker is not printed; otherwise all of the text is printed; and
\* the output is the text of the flushed segments and the printed part of the
\* text of token_cache
PutHoldsBack ==
    PutStep =>
        /\ EndsWithMarker(Detok(Append(token_cache, put_log'[Len(put_log')]))) =>
               /\ LastChunk(chunks') = <<>>
               /\ print_len' = print_len
               /\ print_len' <= Len(Cached') - Len(Marker)
        /\ ~EndsWithMarker(LastChunk(chunks'))
        /\ ~EndsWithMarker(Cached') => print_len' = Len(Cached')
        /\ LET segs == Segments(<<>>, put_log')
           IN  Output(chunks') \o SubSeq(Cached', print_len' + 1, Len(Cached'))
                   = DecodeEach(segs)

\* C10 (as claimed): when the text of token_cache ends in the marker, put emits
\* nothing and leaves print_len unchanged; no chunk emitted by put or by end
\* ends with the marker (the newline that end appends aside); the text held
\* back is emitted once a later token completes the glyph.
C10_MarkerNeverSurfaced ==
    [][ /\ PutHoldsBack
        /\ EndStep =>
               ~EndsWithMarker(SubSeq(LastChunk(chunks'), 1, Len(LastChunk(chunks')) - 1))
      ]_vars

\* C10 (amended): when the text of token_cache ends in the marker, put emits
\* nothing and leaves print_len unchanged; no chunk emitted by put ends with
\* the marker; the text held back is emitted by the first later put after which
\* the text no longer ends in the marker (the glyph is complete), and otherwise
\* by end(), which writes all the text not yet printed, a trailing marker included.
C10_PutWithholdsMarker ==
    [][ /\ PutHoldsBack
        /\ EndStep =>
               Output(chunks') = DecodeEach(Segments(<<>>, put_log)) \o <<"nl">>
      ]_vars

\* C10 witness: the first half of the glyph was held back (empty chunk) and the
\* second half released the whole glyph
C10_Witness ==
    /\ st_pc = "open" /\ put_log = <<4, 5>>
    /\ chunks[1].text = <<>> /\ chunks[2].text = Glyph
    /\ print_len = Len(Glyph)

----------------------------------------------------------------------------
(* Claims about get_out_token_id *)

\* t is the lowest index of a greatest element of ls
IsLowestMax(ls, t) ==
    /\ t \in 0 .. Len(ls) - 1
    /\ \A j \in 1 .. Len(ls) : ls[j] <= ls[t + 1]
    /\ \A j \in 1 .. t : ls[j] < ls[t + 1]

GreedyCalled == s_pc = "called" /\ ~sample_call.do_sample
SampleCalled == s_pc = "called" /\ sample_call.do_sample

\* C11 (as claimed): with do_sample false, get_out_token_id returns the argmax
\* of the logits it was given, whatever temperature, top_k, top_p,
\* repeat_penalty, repeat_last_n and the history are.
\* The code applies the repetition penalty before it tests do_sample.
C11_GreedyIgnoresParams ==
    GreedyCalled => IsLowestMax(sample_call.logits, sampled_token)

\* a step that is a call with do_sample false
GreedyCallStep ==
    /\ s_pc' = "called" /\ ~sample_call'.do_sample
    /\ ~(rng.seeded /\ ~rng'.seeded)

\* C12: the greedy selection returns the lowest index among the greatest of the
\* logits it reads, whatever the seed of the call and whatever calls came
\* before, and it neither seeds nor advances the RNG.
C12_GreedyLowestIndexDeterministic ==
    [][ GreedyCallStep =>
            /\ IsLowestMax(logits', sampled_token')
            /\ rng' = rng
      ]_vars

\* C12 witness: a greedy call on logits with two equal maxima returned the first
\* of them, after a sampling call of the same thread had seeded the RNG with
\* another seed than this call's
C12_Witness ==
    /\ GreedyCalled /\ logits = <<4, 0, 4>> /\ sampled_token = 0
    /\ rng.seeded /\ rng.draws >= 1 /\ rng.seed # sample_call.seed

----------------------------------------------------------------------------
(* Claims about the loop of main() *)

EndCalls == Cardinality({ i \in 1 .. Len(chunks) : chunks[i].op = "end" })
\* the loop condition is evaluated and holds / fails
LoopEntered == mpc = "loop" /\ mpc' = "target"
LoopLeft == mpc = "loop" /\ mpc' = "done"

\* steps main() can still take before it is done: every step takes one off
StepsLeft ==
    CASE mpc = "start" -> 4 * max_iter + 2
      [] mpc = "loop" -> 4 * (max_iter - iter) + 1
      [] mpc = "target" -> 4 * (max_iter - iter) + 3
      [] mpc = "put" -> 4 * (max_iter - iter) + 2
      [] OTHER -> 0

\* C14: the loop ends after at most max_iter iterations whatever the models
\* give (every step of main() lowers a bound that max_iter fixes, which is 0
\* only when main() is done); it is left exactly when the
\* draft's next token is the EOS id or iter has reached max_iter; the EOS
\* token is never given to the streamer; end() is called once, after the loop.
C14_LoopTerminates ==
    [][ /\ StepsLeft' < StepsLeft /\ StepsLeft' >= 0
        /\ StepsLeft' = 0 <=> mpc' = "done"
        /\ iter' <= max_iter
        /\ \A i \in 1 .. Len(put_log') : put_log'[i] # SPECIAL_EOS_TOKEN
        /\ EndCalls' = IF mpc' = "done" THEN 1 ELSE 0
        /\ mpc' = "done" => chunks'[Len(chunks')].op = "end"
        /\ LoopEntered => (out_token # SPECIAL_EOS_TOKEN /\ iter < max_iter)
        /\ LoopLeft => (out_token = SPECIAL_EOS_TOKEN \/ iter = max_iter)
      ]_vars

\* C14 witness: the loop ran all its max_iter iterations, no EOS came, and end()
\* was called
C14_Witness ==
    /\ mpc = "done" /\ iter = max_iter /\ out_token # SPECIAL_EOS_TOKEN
    /\ Len(put_log) = max_iter /\ EndCalls = 1

\* the iterations the draft's outputs alone allow: up to its first EOS, at most max_iter
DraftIterations ==
    CHOOSE k \in 0 .. max_iter :
        /\ k = max_iter \/ DraftScript(k) = SPECIAL_EOS_TOKEN
        /\ \A j \in 0 .. k - 1 : DraftScript(j) # SPECIAL_EOS_TOKEN

\* C15: the tokens given to the streamer and the number of iterations are
\* those that the prompt and the draft model's outputs fix: the same for every
\* output of the target model.
C15_EmittedIndependentOfTarget ==
    mpc \in {"loop", "target", "put", "done"} =>
        /\ put_log = [j \in 1 .. Len(put_log) |-> DraftScript(j - 1)]
        /\ Len(put_log) = IF mpc \in {"target", "put"} THEN iter - 1 ELSE iter
        /\ mpc \in {"loop", "done"} => out_token = DraftScript(iter)
        /\ mpc = "done" => iter = DraftIterations

\* C15 witness: a finished run of several iterations in which the target's
\* token differs from the draft's first token
C15_Witness ==
    /\ mpc = "done" /\ iter >= 2
    /\ target_out_token # put_log[1] /\ target_first # DraftScript(0)

\* C18: after the prefill of an L-token prompt and k iterations, the attention
\* mask and the KV cache of the draft session and of the target session have
\* length L + k each; within an iteration the draft is one position ahead
\* until the target's step; the cache still starts with the prompt.
C18_SessionsGrowInLockstep ==
    LET L == Len(main_prompt)
        Grown(req, k) ==
            /\ Len(req.attention_mask) = L + k
            /\ Len(req.present) = L + k
            /\ [i \in 1 .. L |-> req.present[i][1]] = main_prompt
    IN  /\ mpc \in {"loop", "put", "done"} => (Grown(lm, iter) /\ Grown(lm_target, iter))
        /\ mpc = "target" => (Grown(lm, iter) /\ Grown(lm_target, iter - 1))

\* C18 witness: max_iter iterations after a two-token prompt
C18_Witness ==
    /\ mpc = "done" /\ iter = max_iter /\ Len(main_prompt) = 2
    /\ Len(lm.present) = max_iter + 2 /\ Len(lm_target.attention_mask) = max_iter + 2

\* C20 (as claimed): at every iteration after the first, the token given to
\* the target's decode step is the argmax of the logits of the target's
\* previous inference.  The code never updates target_out_token in the loop.
C20_TargetFedItsOwnToken ==
    (mpc = "target" /\ iter >= 2) =>
        target_out_token = TargetArgmax(lm_target.logits[1])

----------------------------------------------------------------------------
(* Claims about the inference state *)

Req == Deref(infer_request)
AfterStep == pc = "loop" /\ infer_request # Null
PrefillLengthsEqual ==
    prefill_snapshot # <<>> =>
        LET snap == prefill_snapshot[1]
        IN  /\ Len(snap.attention_mask) = Len(snap.position_ids)
            /\ Len(snap.attention_mask) = Len(snap.kv)

\* C16 (as claimed): after the prefill and after every decode step the
\* attention-mask length, the position-ids length and the sequence length of
\* the session are equal.
C16_LengthsEqual ==
    /\ PrefillLengthsEqual
    /\ AfterStep =>
           /\ Len(Req.attention_mask) = Len(Req.position_ids)
           /\ Len(Req.attention_mask) = Len(Req.kv)

\* C16 (amended): after the prefill inference the attention-mask length, the
\* position-ids length and the sequence length are all the prompt length L;
\* from the reshape that follows, after the first token and after each of the
\* k decode steps, the attention-mask length and the sequence length are L + k
\* and position_ids, like input_ids, has length 1.
C16_MaskTracksSequence ==
    /\ PrefillLengthsEqual
    /\ prefill_snapshot # <<>> => Len(prefill_snapshot[1].kv) = Len(input_ids)
    /\ AfterStep =>
           /\ Len(Req.attention_mask) = Len(input_ids) + decode_steps
           /\ Len(Req.kv) = Len(input_ids) + decode_steps
           /\ Len(Req.position_ids) = 1
           /\ Len(Req.input_ids) = 1

\* C16 witness: two decode steps after a two-token prompt
C16_Witness ==
    /\ AfterStep /\ Len(input_ids) = 2 /\ decode_steps = 2
    /\ Len(Req.attention_mask) = 4 /\ Len(Req.position_ids) = 1

Positions(kv) == [i \in 1 .. Len(kv) |-> kv[i][2]]

\* C17 (as claimed): the position id of a decode step is the attention-mask
\* length after growing minus 1, so the positions given to the model over the
\* prefill and the decode steps are 0, 1, 2, ... with none used twice.
\* The code writes the attention-mask size minus 2.
C17_PositionsIncrease ==
    /\ (pc = "next_infer" /\ infer_request # Null) =>
           Req.position_ids[1] = Len(Req.attention_mask) - 1
    /\ infer_request # Null => Positions(Req.kv) = Iota(Len(Req.kv))
    /\ mpc # "off" =>
           /\ Positions(lm.present) = Iota(Len(lm.present))
           /\ Positions(lm_target.present) = Iota(Len(lm_target.present))

\* C19 (as claimed): the first token of every session is selected from the
\* row of the prefill logits of the last prompt position, in
\* generate_first_token and for the draft and the target of main().
\* generate_first_token passes the start of the logits tensor.
C19_FirstTokenFromLastPosition ==
    /\ prefill_snapshot # <<>> =>
           prefill_snapshot[2] =
               prefill_snapshot[1].logits[Len(prefill_snapshot[1].attention_mask)]
    /\ (mpc = "loop" /\ iter = 0) =>
           /\ out_token = DraftArgmax(lm.logits[Len(main_prompt)])
           /\ target_out_token = TargetArgmax(lm_target.logits[Len(main_prompt)])

----------------------------------------------------------------------------
(* Claims about the order of the steps of main()'s loop *)

\* the token ids a session has consumed: those of its KV cache
Consumed(req) == [i \in 1 .. Len(req.present) |-> req.present[i][1]]

\* C21 (as claimed): at every iteration the token given to the target's decode
\* step is the token given to the draft's decode step of that iteration, so
\* both sessions have consumed the same tokens.  The code gives the target
\* target_out_token, the argmax of the target's prefill, at every iteration.
C21_TargetFedDraftToken ==
    mpc = "put" =>
        /\ lm_target.input_ids = lm.input_ids
        /\ Consumed(lm_target) = Consumed(lm)

\* C22 (as claimed): in an iteration the draft's token has been given to the
\* streamer when the draft's decode step for it has run.
C22_PutBeforeDraftStep ==
    (mpc \in {"target", "put"} /\ iter >= 1) =>
        /\ Len(put_log) = iter
        /\ <<put_log[iter]>> = lm.input_ids

\* C22 (amended): in an iteration the draft's decode step runs first, the
\* target's decode step second, and the token of the draft's step is given to
\* the streamer only after both, before the next iteration starts.
C22_PutAfterBothSteps ==
    LET L == Len(main_prompt)
    IN  /\ mpc = "target" =>
              /\ Len(lm.present) = L + iter /\ Len(lm_target.present) = L + iter - 1
              /\ Len(put_log) = iter - 1
        /\ mpc = "put" =>
              /\ Len(lm.present) = L + iter /\ Len(lm_target.present) = L + iter
              /\ Len(put_log) = iter - 1
        /\ (mpc \in {"loop", "done"} /\ iter >= 1) =>
              /\ Len(lm.present) = L + iter /\ Len(lm_target.present) = L + iter
              /\ Len(put_log) = iter
              /\ <<put_log[iter]>> = lm.input_ids

\* C22 witness: in the third iteration both decode steps have run and the
\* iteration's token is not yet with the streamer
C22_Witness ==
    /\ mpc = "put" /\ iter = 3 /\ Len(put_log) = 2
    /\ Len(lm_target.present) = Len(main_prompt) + 3

----------------------------------------------------------------------------
(* Claims about the state of TextStreamer *)

C24_FlushFrame ==
    [][ /\ PutStep =>
              LET tok == put_log'[Len(put_log')]
                  text == Detok(Append(token_cache, tok))
              IN  /\ Len(chunks') = Len(chunks) + 1
                  /\ IF EndsWithNewline(text)
                     THEN /\ LastChunk(chunks') = SubSeq(text, print_len + 1, Len(text))
                          /\ token_cache' = <<>>
                          /\ print_len' = 0
                     ELSE token_cache' = Append(token_cache, tok)
        /\ EndStep =>
              /\ Len(chunks') = Len(chunks) + 1
              /\ LastChunk(chunks') = SubSeq(Cached, print_len + 1, Len(Cached)) \o <<"nl">>
              /\ token_cache' = <<>>
              /\ print_len' = 0
      ]_vars

\* C24 witness: a newline flushed a cache of which one character was printed
\* before, and only the newline was written
C24_Witness ==
    /\ st_pc = "open" /\ put_log = <<0, 3>>
    /\ chunks[2].text = <<"nl">>
    /\ token_cache = <<>> /\ print_len = 0

----------------------------------------------------------------------------
(* Claims about the random number engine of get_out_token_id *)

\* a call with do_sample true returns: the engine has made one more draw
SampleCallStep == rng' # rng /\ rng'.seeded

\* C25: the engine of a thread is seeded once, with the seed of the thread's
\* first sampling call; a later call does not seed it again, whatever seed it
\* carries, and only advances it by one draw.  The token of the k-th sampling
\* call of a thread is the one that the first seed, k and the call's candidate
\* list fix: the same on every thread that starts fresh.
C25_SeededOncePerThread ==
    [][ SampleCallStep =>
            /\ rng'.seed = IF rng.seeded THEN rng.seed ELSE sample_call'.seed
            /\ rng'.draws = (IF rng.seeded THEN rng.draws ELSE 0) + 1
            /\ token_scores' # <<>> =>
                   sampled_token' =
                       token_scores'[DiscreteDraw(Weights(token_scores'),
                                                  Mt19937(rng'.seed, rng'.draws - 1)) + 1].id
      ]_vars

\* C25 witness: the second sampling call of a thread carried another seed than
\* the first and drew from several candidates with the first call's engine
C25_Witness ==
    /\ SampleCalled /\ rng.draws = 2
    /\ rng.seed # sample_call.seed
    /\ Len(token_scores) >= 2

----------------------------------------------------------------------------
(* Claims about update_whisper_config_from_kwargs *)

\* the call had an argument whose value is None, and no other argument has a
\* name the function does not know
NoneAmongKnown ==
    /\ \E i \in 1 .. Len(kw_kwargs) : is_none(kw_kwargs[i][2])
    /\ \A i \in 1 .. Len(kw_kwargs) :
           ~is_none(kw_kwargs[i][2]) => kw_kwargs[i][1] \in KnownKeys

\* C26 (as claimed): an argument whose value is None is passed over without
\* error, and every other argument of the call is in the config returned,
\* wherever the None argument stands among them.  The code returns at the
\* first None value: the arguments after it are dropped.
C26_NoneSkippedOthersApplied ==
    (kw_pc = "returned" /\ NoneAmongKnown) =>
        /\ kw_result.kind = "config"
        /\ \A i \in 1 .. Len(kw_kwargs) :
               ~is_none(kw_kwargs[i][2]) =>
                   kw_result.config[kw_kwargs[i][1]] = kw_kwargs[i][2][1]

----------------------------------------------------------------------------
(* Claims about the stop flag and the status across api_Generate calls *)

\* C27: once set, by api_stop or by the callback, the stop flag stays set:
\* no api_Generate call clears it, on entry or on return; only api_Reset does.
\* While it is set no decode step starts, and a call produces at most one
\* token more than it ran decode steps, so a call entered with the flag set
\* produces at most one token.  A call that ends with the flag clear, as
\* after api_Reset, ends at an end token or at its token cap.
C27_StopFlagStaysSet ==
    [][ /\ (stop_generation /\ ~stop_generation') => ResetStep
        /\ ResetStep => ~stop_generation'
        /\ decode_steps' > decode_steps => ~stop_generation
        /\ Len(Produced') <= decode_steps' + 1
        /\ (FinishStep /\ ~stop_generation) =>
               (IsEos(output_token) \/ ~UnsignedLess(Len(Produced), n_predict))
      ]_vars

\* C27 witness: the second call was entered with the flag set by an api_stop
\* before it, and its loop ended after one token though that token is no end
\* token and the cap allows more
C27_Witness ==
    /\ calls = 2 /\ pc = "finish" /\ mode = "nonstream"
    /\ stop_generation /\ stop_at = -1
    /\ Len(Produced) = 1 /\ ~IsEos(output_token)
    /\ UnsignedLess(Len(Produced), n_predict)

\* C28 (as claimed): api_status gives `inference` at every moment between the
\* entry of an api_Generate call and its return, also when api_stop runs
\* during the call.  api_stop assigns status::loaded while the call runs.
C28_InferenceWhileGenerating ==
    Running => api_status = "inference"

----------------------------------------------------------------------------
(* Claims comparing the two api_Generate overloads *)

\* C29: while the stop flag is clear, the token ids the streaming overload has
\* given to the callback, and the token ids the non-streaming overload has
\* collected for decoding, are the tokens produced so far, one entry per
\* token in order; and for the same last token, number of tokens and
\* n_predict both while-conditions decide alike.  So for the same tokens
\* selected both overloads deliver the same sequence.
C29_StreamEqualsNonStream ==
    (Running /\ ~stop_generation) =>
        /\ mode = "stream" => cb_log = Produced
        /\ mode = "nonstream" => output_ids = Produced
        /\ StreamLoopCond(output_token, history_ids, input_ids, n_predict)
               <=> NonStreamLoopCond(output_token, Produced, n_predict, FALSE)

\* C29 witness: a streaming call with the flag clear is about to return after
\* three tokens, the last an end token, all given to the callback
C29_Witness ==
    /\ pc = "finish" /\ mode = "stream" /\ ~stop_generation
    /\ Len(cb_log) = 3 /\ LastIsEos(cb_log)
    /\ ~HasEos(SubSeq(cb_log, 1, 2))

\* C30 (as claimed): when api_Generate returns, generated_token_num is the
\* number of tokens the call produced, in both overloads.  The non-streaming
\* overload stores output_ids.size() - 1.
C30_GeneratedTokenNumIsProduced ==
    [][ FinishStep => perf_statistic'.generated_token_num = Len(Produced) ]_vars

----------------------------------------------------------------------------
(* Claims about api_interface without a model session *)

\* C31 (as claimed): api_stop, api_Reset and the destructor do not use the
\* model session when none is loaded: called while no api_Generate runs and
\* _infer_request is null, they complete.  All three dereference
\* _infer_request without a test.
C31_NoUseOfNullSession ==
    [][ (pc = "idle" /\ infer_request = Null) => pc' # "crashed" ]_vars

----------------------------------------------------------------------------
(* Claims about n_predict as a bound *)

\* C32 (as claimed): an api_Generate call runs a number of decode steps that
\* n_predict bounds, for every 32-bit n_predict: none when it is zero or
\* negative.  The loops compare a size_t with n_predict, so a negative
\* n_predict is no bound.
C32_DecodeStepsBoundedByNPredict ==
    Running => decode_steps <= (IF n_predict < 0 THEN 0 ELSE n_predict)

----------------------------------------------------------------------------
(* Claims about the seed of repeated sampling calls *)

\* a sampling call repeats the call before it on the same thread: the same
\* logits, history and seed (the params are the same throughout)
RepeatedSampleCall ==
    /\ SampleCalled /\ rng.seeded
    /\ SampleCallStep
    /\ sample_call' = sample_call

\* the token a sampling call draws from its candidates with the engine
\* seeded with seed after draws earlier draws
DrawnToken(ts, seed, draws) ==
    ts[DiscreteDraw(Weights(ts), Mt19937(seed, draws)) + 1].id

\* C33 (as claimed): a sampling call that repeats the call before it on the
\* same thread, with the same seed, gives the same token: the seed of a call
\* fixes its draws.
C33_SameSeedSameToken ==
    [][ RepeatedSampleCall => sampled_token' = sampled_token ]_vars

\* C33 (amended): the seed of a call fixes its draw only on a thread that has
\* not sampled before.  On a thread that has, the call draws with the engine
\* as the earlier calls left it: its token is the one the thread's first seed
\* and the number of earlier draws give, whatever the call's own seed, so a
\* repeated call gets the next draw of the stream and not the first again.
C33_SeedOnlyOnFreshThread ==
    [][ (SampleCallStep /\ token_scores' # <<>>) =>
            IF rng.seeded
            THEN sampled_token' = DrawnToken(token_scores', rng.seed, rng.draws)
            ELSE sampled_token' = DrawnToken(token_scores', sample_call'.seed, 0)
      ]_vars

\* C33 witness: the second of two equal sampling calls on one thread drew
\* another token than the first draw of its seed gives
C33_Witness ==
    /\ SampleCalled /\ rng.draws = 2 /\ rng.seed = sample_call.seed
    /\ Len(token_scores) >= 2
    /\ sampled_token # DrawnToken(token_scores, sample_call.seed, 0)
    /\ sampled_token = DrawnToken(token_scores, sample_call.seed, 1)

====
